---- MODULE Spec2Model ----
(***************************************************************************)
(* Subscription reconciliation of src/server.js: the users table held in   *)
(* the hosted store, the request handlers that write it (create            *)
(* subscription, status query, cancel subscription, provider webhook,      *)
(* /success redirect) and the hourly sweep checkExpiredSubscriptions.      *)
(*                                                                         *)
(* Every handler is an async function: each await on the store or on the   *)
(* provider is a point where another handler may run, so a handler is one  *)
(* action per store call it makes (the work before the call and the work   *)
(* after it belong to the same action as the call).                        *)
(***************************************************************************)
EXTENDS Integers, FiniteSets, TLC

\* ------------------------------------------------------------------ bounds

\* The clock runs over 0..MaxTime; one unit is one comparable instant.
MaxTime == 1

\* How many of the handlers that make more than one store call (the sweep, the
\* status query, the cancel request) may be between two of their calls at once.
MaxInFlight == 1

\* ----------------------------------------------------------------- domains

Users == {"u1", "u2"}
\* The addresses users sign up with.
Emails == {"a@x"}
\* The addresses an event may carry: those of the users and one that no user
\* has.
EventEmails == Emails \cup {"z@x"}
SubIds == {"sub1"}
Sessions == {"cs1"}

\* A column that holds SQL NULL / a JavaScript value that is undefined.
None == "none"
\* A timestamp column that holds NULL.
NoDate == -1

Times == 0..MaxTime
\* next_billing_date values a provider event can carry: past, now and future.
Dates == 0..(MaxTime + 1)

\* Outcome of one call on the supabase client: the call succeeds, it resolves
\* with {error}, or the awaited promise rejects.
StoreOutcomes == {"ok", "error", "throw"}
\* Outcome of one fetch on the provider: 2xx, non-2xx, or the fetch rejects.
ProviderOutcomes == {"ok", "rejected", "throw"}

EventTypes == {"subscription.created", "subscription.active", "subscription.renewed",
               "subscription.cancelled", "subscription.expired",
               "payment.succeeded", "payment.failed", "invoice.paid"}
ActivateTypes == {"subscription.created", "subscription.active", "subscription.renewed"}

\* The webhook envelope {type, data: {subscription_id, customer: {email},
\* next_billing_date}}; None is a field the envelope does not carry.
Events == [type : EventTypes, subscription_id : SubIds \cup {None},
           email : EventEmails \cup {None}, next_billing_date : Dates]

\* The status the provider reports for a subscription.
ProviderStatuses == {"active", "cancelled"}

VARIABLES
    users,      \* the users table: user_id -> row
    now,        \* the clock (new Date())
    sweep,      \* checkExpiredSubscriptions in flight: its position and the rows it selected
    statusReq,  \* GET /api/user/:userId/status in flight
    cancelReq,  \* POST /api/cancel-subscription in flight
    paymentReq, \* payment.succeeded of the earlier revision (part_000) in flight
    resp,       \* the last response a handler sent
    provider,   \* the provider's side: subscription_id -> the status it reports
    tick        \* record of the current/last sweep tick: the table it started from

vars == <<users, now, sweep, statusReq, cancelReq, paymentReq, resp, provider, tick>>

\* ------------------------------------------------------------------- rows

\* No row for this user_id. Boolean columns that were never written read as
\* falsy at every use in the code, so unset is modelled as FALSE.
NoRow == [exists |-> FALSE, email |-> None, subscription_id |-> None,
          session_id |-> None, is_premium |-> FALSE, status |-> "unset",
          next_billing_date |-> NoDate, cancel_at_billing_date |-> FALSE,
          updated_at |-> NoDate]

\* supabase.from("users").update(patch).eq(...): every existing row that
\* matches gets the patch.
UpdateWhere(tbl, Match(_), Patch(_)) ==
    [u \in Users |-> IF tbl[u].exists /\ Match(tbl[u]) THEN Patch(tbl[u]) ELSE tbl[u]]

\* new Date(x): null converts to the epoch.
ToDate(d) == IF d = NoDate THEN 0 ELSE d

\* A response: the handler, the HTTP status code and, for the status query,
\* the entitlement it reports. With it goes a note of the request it answers
\* (about), of whether the handler called the provider for it (called) and of
\* whether the handler's step changed the table (wrote).
Response(op, code) ==
    [op |-> op, code |-> code, isPremium |-> FALSE, status |-> None,
     about |-> None, called |-> FALSE, wrote |-> FALSE]
StatusResponse(p, s) == [Response("status", 200) EXCEPT !.isPremium = p, !.status = s]
About(r, a) == [r EXCEPT !.about = a]
\* A step of a handler that ends at an await: no response is sent yet.
NoReply == Response("pending", 0)

\* No request of the kind in flight.
Idle == [pc |-> "idle", user |-> None]

\* No payment.succeeded delivery of the earlier revision in flight.
NoPayment ==
    [pc |-> "idle", by |-> None, value |-> None, subscription_id |-> None,
     next_billing_date |-> 0]

\* Handlers that have made a store call and have another to make.
InFlight ==
    (IF sweep.pc = "idle" THEN 0 ELSE 1) + (IF statusReq.pc = "idle" THEN 0 ELSE 1)
    + (IF cancelReq.pc = "idle" THEN 0 ELSE 1) + (IF paymentReq.pc = "idle" THEN 0 ELSE 1)

\* ------------------------------------------------------ the sweep's record

\* The table a sweep tick started from, kept while no store call of the tick
\* failed and no other handler wrote the table since the tick began; dropped
\* (NoTick) otherwise.
EmptyTable == [u \in Users |-> NoRow]
NoTick == [state |-> "none", snap |-> EmptyTable, at |-> 0]

\* A step of any handler other than the sweep: a write to the table ends the
\* undisturbed tick.
Interfere == tick' = IF users' = users THEN tick ELSE NoTick

\* -------------------------------------------------- checkExpiredSubscriptions

\* .eq("cancel_at_billing_date", true).eq("is_premium", true)
\* .lte("next_billing_date", now): a NULL date matches no comparison.
SweepSelectsStrictlyPast(r, t) ==
    /\ r.cancel_at_billing_date
    /\ r.is_premium
    /\ r.next_billing_date # NoDate
    /\ r.next_billing_date < t

SweepSelects(r, t) ==
    /\ r.cancel_at_billing_date
    /\ r.is_premium
    /\ r.next_billing_date # NoDate
    /\ r.next_billing_date <= t

SweepSelected(tbl, t) == {u \in Users : tbl[u].exists /\ SweepSelects(tbl[u], t)}

SweepExpirePatchStatusOnly(r, t) == [r EXCEPT !.status = "expired", !.updated_at = t]

SweepExpirePatch(r, t) ==
    [r EXCEPT !.is_premium = FALSE, !.status = "expired", !.updated_at = t]

\* The table after a whole tick at instant t on the table tbl, run alone with
\* every store call succeeding.
SweepUpdate(tbl, t) ==
    [u \in Users |-> IF u \in SweepSelected(tbl, t) THEN SweepExpirePatch(tbl[u], t)
                     ELSE tbl[u]]

\* The select at the head of the tick. An error or a rejected call ends the
\* tick; an empty selection ends it too.
SweepStart(o) ==
    /\ sweep.pc = "idle"
    /\ InFlight < MaxInFlight
    /\ UNCHANGED <<users, now, statusReq, cancelReq, paymentReq, provider>>
    /\ IF o = "ok"
       THEN LET sel == SweepSelected(users, now) IN
            /\ sweep' = IF sel = {} THEN [pc |-> "idle", queue |-> {}]
                        ELSE [pc |-> "run", queue |-> sel]
            /\ tick' = [state |-> IF sel = {} THEN "finished" ELSE "running",
                        snap |-> users, at |-> now]
       ELSE /\ sweep' = [pc |-> "idle", queue |-> {}]
            /\ tick' = NoTick

\* One iteration of the for loop: the update of one selected row by user_id.
\* An {error} is logged and the loop goes on; a rejected call leaves the loop
\* for the catch of the function.
SweepStep(u, o) ==
    /\ sweep.pc = "run"
    /\ u \in sweep.queue
    /\ UNCHANGED <<now, statusReq, cancelReq, paymentReq, provider>>
    /\ LET rest == IF o = "throw" THEN {} ELSE sweep.queue \ {u} IN
       /\ sweep' = [pc |-> IF rest = {} THEN "idle" ELSE "run", queue |-> rest]
       /\ users' = IF o = "ok"
                   THEN [users EXCEPT ![u] = IF @.exists THEN SweepExpirePatch(@, now) ELSE @]
                   ELSE users
       /\ tick' = IF o = "ok" /\ tick.state = "running"
                  THEN [tick EXCEPT !.state = IF rest = {} THEN "finished" ELSE "running"]
                  ELSE NoTick

\* ------------------------------------------------------------------- clock

ClockTick ==
    /\ now < MaxTime
    /\ now' = now + 1
    /\ UNCHANGED <<users, sweep, statusReq, cancelReq, paymentReq, provider, tick>>

\* ------------------------------------------------ POST /api/create-subscription

\* upsert({user_id, email, name, session_id, created_at, updated_at}): a new
\* row gets the columns given and the defaults for the rest; an existing row
\* keeps every column the upsert does not name.
UpsertRowEntitling(r, e, sid, t) ==
    IF r.exists
    THEN [r EXCEPT !.email = e, !.session_id = sid, !.updated_at = t]
    ELSE [NoRow EXCEPT !.exists = TRUE, !.email = e, !.session_id = sid,
                       !.is_premium = TRUE, !.updated_at = t]

UpsertRowReplacing(r, e, sid, t) ==
    [NoRow EXCEPT !.exists = TRUE, !.email = e, !.session_id = sid, !.updated_at = t]

UpsertRow(r, e, sid, t) ==
    IF r.exists
    THEN [r EXCEPT !.email = e, !.session_id = sid, !.updated_at = t]
    ELSE [NoRow EXCEPT !.exists = TRUE, !.email = e, !.session_id = sid, !.updated_at = t]

\* p is the provider's answer to POST /checkouts, o the outcome of the upsert
\* (its {error} is not looked at).
CreateSubscription(u, e, sid, p, o) ==
    /\ UNCHANGED <<now, sweep, statusReq, cancelReq, paymentReq, provider>>
    /\ users' = IF p = "ok" /\ o = "ok"
                THEN [users EXCEPT ![u] = UpsertRow(@, e, sid, now)]
                ELSE users
    /\ Interfere

\* The answer, with a note of whether the provider made the checkout and, if
\* it did, of whether the user had a row already.
CreateReply(u, p, o) ==
    [About(IF p = "throw" \/ (p = "ok" /\ o = "throw") THEN Response("create", 500)
           ELSE IF p = "rejected" THEN Response("create", 400)
           ELSE Response("create", 200),
           IF p # "ok" THEN "provider_failed"
           ELSE IF users[u].exists THEN "provider_ok_again"
           ELSE "provider_ok") EXCEPT !.called = TRUE]

\* -------------------------------------------------- GET /api/user/:userId/status

\* user.cancel_at_billing_date && new Date(user.next_billing_date) <= now
StatusExpiredStrictlyPast(r, t) == r.cancel_at_billing_date /\ ToDate(r.next_billing_date) < t

StatusExpired(r, t) == r.cancel_at_billing_date /\ ToDate(r.next_billing_date) <= t

StatusExpirePatch(r, t) ==
    [r EXCEPT !.is_premium = FALSE, !.status = "expired", !.updated_at = t]

\* The table after a whole status query for u at instant t on the table tbl,
\* run alone with every store call succeeding.
StatusUpdate(tbl, u, t) ==
    IF tbl[u].exists /\ tbl[u].subscription_id # None /\ StatusExpired(tbl[u], t)
    THEN [tbl EXCEPT ![u] = StatusExpirePatch(@, t)]
    ELSE tbl

\* The select of the row and everything up to the next await: the answer is
\* sent here unless the row is found expired, in which case the update is
\* still to be made.
StatusFindsExpired(u, o) ==
    /\ o = "ok"
    /\ users[u].exists
    /\ users[u].subscription_id # None
    /\ StatusExpired(users[u], now)

\* What the select of a status query for u returns: a failure, a row that
\* holds a subscription_id with the cancel flag set and a billing date that is
\* not after now, or anything else.
StatusCase(u, o) ==
    IF o # "ok" THEN "store_failed"
    ELSE IF /\ users[u].exists
            /\ users[u].subscription_id # None
            /\ users[u].cancel_at_billing_date
            /\ ToDate(users[u].next_billing_date) <= now
    THEN "grace_elapsed"
    ELSE "other"

StatusRead(u, o) ==
    /\ statusReq.pc = "idle"
    /\ InFlight < MaxInFlight
    /\ UNCHANGED <<users, now, sweep, cancelReq, paymentReq, provider, tick>>
    /\ statusReq' = IF StatusFindsExpired(u, o) THEN [pc |-> "write", user |-> u]
                    ELSE statusReq

\* The answer sent by the read; none yet (the last response stays) when the
\* update is still to be made.
StatusReadReply(u, o) ==
    IF o = "throw" THEN About(Response("status", 500), StatusCase(u, o))
    ELSE IF o = "error" \/ ~users[u].exists \/ users[u].subscription_id = None
    THEN About(StatusResponse(FALSE, "free"), StatusCase(u, o))
    ELSE IF StatusExpired(users[u], now) THEN NoReply
    ELSE About(StatusResponse(users[u].is_premium, users[u].status), StatusCase(u, o))

\* The update of the expired row by user_id (its {error} is not looked at)
\* and the answer.
StatusWrite(o) ==
    /\ statusReq.pc = "write"
    /\ UNCHANGED <<now, sweep, cancelReq, paymentReq, provider>>
    /\ statusReq' = Idle
    /\ users' = IF o = "ok"
                THEN [users EXCEPT ![statusReq.user] =
                          IF @.exists THEN StatusExpirePatch(@, now) ELSE @]
                ELSE users
    /\ Interfere

\* The answer after the update; the handler is here because its select
\* returned a row whose grace period had elapsed.
StatusWriteReply(o) ==
    IF o = "throw" THEN About(Response("status", 500), "store_failed")
    ELSE About(StatusResponse(FALSE, "expired"), "grace_elapsed")

\* ------------------------------------------------- POST /api/cancel-subscription

CancelPatchRevoking(r, t) ==
    [r EXCEPT !.is_premium = FALSE, !.cancel_at_billing_date = TRUE,
              !.status = "cancelling", !.updated_at = t]

CancelPatch(r, t) ==
    [r EXCEPT !.cancel_at_billing_date = TRUE, !.status = "cancelling", !.updated_at = t]

\* Validation and the select by user_id and subscription_id.
CancelFindsRow(u, sub, o) ==
    /\ u # None
    /\ sub # None
    /\ o = "ok"
    /\ users[u].exists
    /\ users[u].subscription_id = sub

CancelRead(u, sub, o) ==
    /\ cancelReq.pc = "idle"
    /\ InFlight < MaxInFlight
    /\ UNCHANGED <<users, now, sweep, statusReq, paymentReq, provider, tick>>
    /\ cancelReq' = IF CancelFindsRow(u, sub, o) THEN [pc |-> "provider", user |-> u]
                    ELSE cancelReq

\* The answers given before the call on the provider, each with the case it
\* answers.
CancelReadReply(u, sub, o) ==
    IF u = None \/ sub = None THEN About(Response("cancel", 400), "missing_ids")
    ELSE IF o = "throw" THEN About(Response("cancel", 500), "call_threw")
    ELSE IF o = "error" \/ ~users[u].exists \/ users[u].subscription_id # sub
    THEN About(Response("cancel", 404), "not_found")
    ELSE NoReply

\* The PATCH on the provider (p) and, when it is accepted, the update of the
\* row by user_id (o; its {error} is not looked at).
CancelFinishUpdatingFirst(p, o) ==
    /\ cancelReq.pc = "provider"
    /\ UNCHANGED <<now, sweep, statusReq, paymentReq, provider>>
    /\ cancelReq' = Idle
    /\ users' = IF o = "ok"
                THEN [users EXCEPT ![cancelReq.user] =
                          IF @.exists THEN CancelPatch(@, now) ELSE @]
                ELSE users
    /\ Interfere

CancelFinish(p, o) ==
    /\ cancelReq.pc = "provider"
    /\ UNCHANGED <<now, sweep, statusReq, paymentReq, provider>>
    /\ cancelReq' = Idle
    /\ users' = IF p = "ok" /\ o = "ok"
                THEN [users EXCEPT ![cancelReq.user] =
                          IF @.exists THEN CancelPatch(@, now) ELSE @]
                ELSE users
    /\ Interfere

\* The answers given after the call on the provider.
CancelFinishReply(p, o) ==
    [(IF p = "throw" \/ (p = "ok" /\ o = "throw")
      THEN About(Response("cancel", 500), "call_threw")
      ELSE IF p = "rejected" THEN About(Response("cancel", 400), "provider_rejected")
      ELSE About(Response("cancel", 200), "accepted")) EXCEPT !.called = TRUE]

\* ------------------------------------------------- POST /api/webhooks/dodopayments

\* res.status(200).json({received: true}) after the switch and on a missing
\* subscription_id; res.status(500) from the catch when an awaited call
\* rejects. o is the outcome of the branch's store call ("ok" when the branch
\* makes none).
WebhookReply(o) == IF o = "throw" THEN Response("webhook", 500) ELSE Response("webhook", 200)

\* What every branch of the switch shares: one update on the store with
\* outcome o, whose {error} is logged.
WebhookStore(updated, o) ==
    /\ UNCHANGED <<now, sweep, statusReq, cancelReq, paymentReq, provider>>
    /\ users' = IF o = "ok" THEN updated ELSE users
    /\ Interfere

\* A branch that makes no store call.
WebhookNoStore == UNCHANGED <<users, now, sweep, statusReq, cancelReq, paymentReq, provider, tick>>

\* if (!subscriptionId) return res.status(200)
WebhookMissingSubscription(e) ==
    /\ e.subscription_id = None
    /\ WebhookNoStore

\* subscription.created / subscription.active / subscription.renewed
ActivatePatchKeepingSubscription(r, e, t) ==
    [r EXCEPT !.is_premium = TRUE,
              !.status = "active", !.next_billing_date = e.next_billing_date,
              !.cancel_at_billing_date = FALSE, !.updated_at = t]

ActivatePatch(r, e, t) ==
    [r EXCEPT !.subscription_id = e.subscription_id, !.is_premium = TRUE,
              !.status = "active", !.next_billing_date = e.next_billing_date,
              !.cancel_at_billing_date = FALSE, !.updated_at = t]

\* The update of an activation matched no row: the branch then lists the
\* users for the log, one more call on the store.
ActivateFindsNone(e) ==
    e.email # None /\ \A u \in Users : ~(users[u].exists /\ users[u].email = e.email)

\* o is the outcome of the update, o2 that of the listing when it is made.
ActivateReply(e, o, o2) ==
    IF o = "ok" /\ ActivateFindsNone(e) THEN WebhookReply(o2) ELSE WebhookReply(o)

\* subscription.cancelled: nextBilling > now
GraceRunning(e, t) == e.next_billing_date > t

CancelledStatus(e, t) == IF GraceRunning(e, t) THEN "cancelled" ELSE "expired"

CancelledPatchToggling(r, e, t) ==
    [r EXCEPT !.is_premium = ~r.is_premium, !.status = CancelledStatus(e, t),
              !.cancel_at_billing_date = GraceRunning(e, t), !.updated_at = t]

CancelledPatch(r, e, t) ==
    [r EXCEPT !.is_premium = GraceRunning(e, t), !.status = CancelledStatus(e, t),
              !.cancel_at_billing_date = GraceRunning(e, t), !.updated_at = t]

\* payment.succeeded: the patch leaves cancel_at_billing_date alone.
PaymentSucceededPatch(r, e, t) ==
    [r EXCEPT !.subscription_id = e.subscription_id, !.is_premium = TRUE,
              !.status = "active", !.next_billing_date = e.next_billing_date,
              !.updated_at = t]

\* payment.failed
PaymentFailedPatchRevoking(r, t) ==
    [r EXCEPT !.is_premium = FALSE, !.status = "payment_failed", !.updated_at = t]

PaymentFailedPatch(r, t) == [r EXCEPT !.status = "payment_failed", !.updated_at = t]

\* subscription.expired
ExpiredPatch(r, t) ==
    [r EXCEPT !.is_premium = FALSE, !.status = "expired",
              !.cancel_at_billing_date = FALSE, !.updated_at = t]

HandledTypes == ActivateTypes \cup {"subscription.cancelled", "payment.succeeded",
                                    "payment.failed", "subscription.expired"}

\* The table after the delivery of e at instant t to the table tbl, every
\* store call succeeding: the update of the case of e.type, if it has one.
WebhookUpdate(tbl, e, t) ==
    IF e.subscription_id = None \/ e.type \notin HandledTypes THEN tbl
    ELSE IF e.type \in ActivateTypes
    THEN IF e.email = None THEN tbl
         ELSE UpdateWhere(tbl, LAMBDA r : r.email = e.email,
                          LAMBDA r : ActivatePatch(r, e, t))
    ELSE IF e.type = "payment.succeeded"
    THEN IF e.email = None THEN tbl
         ELSE UpdateWhere(tbl, LAMBDA r : r.email = e.email,
                          LAMBDA r : PaymentSucceededPatch(r, e, t))
    ELSE IF e.type = "subscription.cancelled"
    THEN UpdateWhere(tbl, LAMBDA r : r.subscription_id = e.subscription_id,
                     LAMBDA r : CancelledPatch(r, e, t))
    ELSE IF e.type = "payment.failed"
    THEN UpdateWhere(tbl, LAMBDA r : r.subscription_id = e.subscription_id,
                     LAMBDA r : PaymentFailedPatch(r, t))
    ELSE UpdateWhere(tbl, LAMBDA r : r.subscription_id = e.subscription_id,
                     LAMBDA r : ExpiredPatch(r, t))

\* The cases of the switch: each makes its update on the store.
WebhookActivate(e, o) ==
    /\ e.subscription_id # None
    /\ e.type \in ActivateTypes
    /\ IF e.email = None
       THEN WebhookNoStore
       ELSE WebhookStore(WebhookUpdate(users, e, now), o)

WebhookCancelled(e, o) ==
    /\ e.subscription_id # None
    /\ e.type = "subscription.cancelled"
    /\ WebhookStore(WebhookUpdate(users, e, now), o)

WebhookPaymentSucceeded(e, o) ==
    /\ e.subscription_id # None
    /\ e.type = "payment.succeeded"
    /\ IF e.email = None
       THEN WebhookNoStore
       ELSE WebhookStore(WebhookUpdate(users, e, now), o)

WebhookPaymentFailed(e, o) ==
    /\ e.subscription_id # None
    /\ e.type = "payment.failed"
    /\ WebhookStore(WebhookUpdate(users, e, now), o)

WebhookExpired(e, o) ==
    /\ e.subscription_id # None
    /\ e.type = "subscription.expired"
    /\ WebhookStore(WebhookUpdate(users, e, now), o)

\* switch (event.type): the cases that write.
WebhookHandled(e, o) ==
    \/ WebhookActivate(e, o)
    \/ WebhookCancelled(e, o)
    \/ WebhookPaymentSucceeded(e, o)
    \/ WebhookPaymentFailed(e, o)
    \/ WebhookExpired(e, o)

\* default:
WebhookUnhandledExpiring(e) ==
    /\ e.subscription_id # None
    /\ e.type \notin HandledTypes
    /\ WebhookStore(UpdateWhere(users, LAMBDA r : r.subscription_id = e.subscription_id,
                                LAMBDA r : ExpiredPatch(r, now)), "ok")

WebhookUnhandled(e) ==
    /\ e.subscription_id # None
    /\ e.type \notin HandledTypes
    /\ WebhookNoStore

\* What a delivery is about, as the handler's log lines tell it: an envelope
\* without subscription_id, a type the switch has no case for, an event none
\* of whose keys (customer email, subscription_id) is on a row, or an event
\* that a row holds a key of.
WebhookClass(e) ==
    IF e.subscription_id = None THEN "no_subscription"
    ELSE IF e.type \notin HandledTypes THEN "unhandled"
    ELSE IF \A u \in Users : users[u].exists =>
                /\ users[u].email # e.email
                /\ users[u].subscription_id # e.subscription_id
    THEN "unresolved"
    ELSE "resolved"

\* ------------------------------------------------------------------ GET /success

\* What the handler reads of the provider's answer to GET /subscriptions/:id:
\* the customer's email and the next billing date. The answer also carries the
\* subscription's status, provider[sub], which the handler does not read.
ProviderAnswers == [email : EventEmails \cup {None}, next_billing_date : Dates]

SuccessPatch(r, sub, a, t) ==
    [r EXCEPT !.subscription_id = sub, !.is_premium = TRUE, !.status = "active",
              !.next_billing_date = a.next_billing_date,
              !.cancel_at_billing_date = FALSE, !.updated_at = t]

\* Whether the redirect handler reaches its update: subscription_id given,
\* status=active in the query, the provider's fetch answered 2xx and carried
\* a customer email.
SuccessActivates(sub, st, p, a) ==
    sub # None /\ st = "active" /\ p = "ok" /\ a.email # None

\* sub and st are the query parameters, p the outcome of the fetch, a its
\* answer, o the outcome of the update. Every path ends in res.redirect.
Success(sub, st, p, a, o) ==
    /\ UNCHANGED <<now, sweep, statusReq, cancelReq, paymentReq, provider>>
    /\ users' = IF SuccessActivates(sub, st, p, a) /\ o = "ok"
                THEN UpdateWhere(users, LAMBDA r : r.email = a.email,
                                 LAMBDA r : SuccessPatch(r, sub, a, now))
                ELSE users
    /\ Interfere

SuccessReply == Response("success", 302)

\* ---------------------------------------------------------------- the provider

\* The provider's side of a subscription changes on its own: it ends a
\* subscription, or takes it up again.
ProviderChanges(sub, st) ==
    /\ provider[sub] # st
    /\ provider' = [provider EXCEPT ![sub] = st]
    /\ UNCHANGED <<users, now, sweep, statusReq, cancelReq, paymentReq, tick>>

\* ---------------------------------------- the earlier revision (part_000)

\* src/unnamed/part_000 is the same server in an earlier revision. Its sweep,
\* its status select, its cancel request (as far as the table goes) and its
\* subscription.cancelled, payment.failed and missing-subscription webhook
\* paths are the code modelled above; the handlers below are those that
\* differ.

\* upsert({ user_id, email, name, session_id, created_at }): no updated_at.
Part000UpsertRow(r, e, sid) ==
    IF r.exists
    THEN [r EXCEPT !.email = e, !.session_id = sid]
    ELSE [NoRow EXCEPT !.exists = TRUE, !.email = e, !.session_id = sid]

Part000CreateSubscription(u, e, sid, p, o) ==
    /\ UNCHANGED <<now, sweep, statusReq, cancelReq, paymentReq, provider>>
    /\ users' = IF p = "ok" /\ o = "ok"
                THEN [users EXCEPT ![u] = Part000UpsertRow(@, e, sid)]
                ELSE users
    /\ Interfere

\* .update({ is_premium: false, status: "expired" }).eq("user_id", userId)
Part000StatusExpirePatch(r) == [r EXCEPT !.is_premium = FALSE, !.status = "expired"]

Part000StatusWrite(o) ==
    /\ statusReq.pc = "write"
    /\ UNCHANGED <<now, sweep, cancelReq, paymentReq, provider>>
    /\ statusReq' = Idle
    /\ users' = IF o = "ok"
                THEN [users EXCEPT ![statusReq.user] =
                          IF @.exists THEN Part000StatusExpirePatch(@) ELSE @]
                ELSE users
    /\ Interfere

\* The events of this revision carry a checkout session id next to the
\* customer email.
Part000Events ==
    [type : EventTypes, subscription_id : SubIds \cup {None},
     email : EventEmails \cup {None}, session_id : Sessions \cup {None},
     next_billing_date : Dates]

\* Activation: the update is matched by one column, the first of customer
\* email, session id and subscription_id that the event carries.
Part000ActivateKey(e) ==
    IF e.email # None THEN "email"
    ELSE IF e.session_id # None THEN "session_id"
    ELSE "subscription_id"

Part000WebhookActivate(e, o) ==
    /\ e.subscription_id # None
    /\ e.type \in ActivateTypes
    /\ WebhookStore(UpdateWhere(users,
                                LAMBDA r : r[Part000ActivateKey(e)] = e[Part000ActivateKey(e)],
                                LAMBDA r : ActivatePatch(r, e, now)), o)

\* payment.succeeded: a select by subscription_id with .single(), which
\* returns a row when exactly one matches, then the update, matched by
\* subscription_id when the select returned a row, else by session id, else
\* by customer email; with none of them the case breaks.
Part000PaymentPatch(r, sub, date, t) ==
    [r EXCEPT !.subscription_id = sub, !.is_premium = TRUE, !.status = "active",
              !.next_billing_date = date, !.updated_at = t]

Part000ExistingUser(sub, o) ==
    /\ o = "ok"
    /\ Cardinality({u \in Users : users[u].exists /\ users[u].subscription_id = sub}) = 1

Part000PaymentKey(e, o) ==
    IF Part000ExistingUser(e.subscription_id, o) THEN "subscription_id"
    ELSE IF e.session_id # None THEN "session_id"
    ELSE IF e.email # None THEN "email"
    ELSE None

\* The select (its {error} is not looked at; a rejected call ends the
\* delivery in the catch) and the choice of the column.
Part000PaymentRead(e, o) ==
    /\ e.subscription_id # None
    /\ e.type = "payment.succeeded"
    /\ paymentReq.pc = "idle"
    /\ InFlight < MaxInFlight
    /\ UNCHANGED <<users, now, sweep, statusReq, cancelReq, provider, tick>>
    /\ paymentReq' = IF o = "throw" \/ Part000PaymentKey(e, o) = None THEN paymentReq
                     ELSE [pc |-> "write", by |-> Part000PaymentKey(e, o),
                           value |-> e[Part000PaymentKey(e, o)],
                           subscription_id |-> e.subscription_id,
                           next_billing_date |-> e.next_billing_date]

Part000PaymentWrite(o) ==
    /\ paymentReq.pc = "write"
    /\ UNCHANGED <<now, sweep, statusReq, cancelReq, provider>>
    /\ paymentReq' = NoPayment
    /\ users' = IF o = "ok"
                THEN UpdateWhere(users, LAMBDA r : r[paymentReq.by] = paymentReq.value,
                                 LAMBDA r : Part000PaymentPatch(r, paymentReq.subscription_id,
                                                                paymentReq.next_billing_date, now))
                ELSE users
    /\ Interfere

\* The switch has no case for subscription.expired.
Part000HandledTypes ==
    ActivateTypes \cup {"subscription.cancelled", "payment.succeeded", "payment.failed"}

Part000WebhookUnhandled(e) ==
    /\ e.subscription_id # None
    /\ e.type \notin Part000HandledTypes
    /\ WebhookNoStore

\* GET /success: the provider's answer carries the customer's id and email,
\* and the update has no updated_at. .eq("user_id", ...) and .or("email.eq...")
\* are two filters of one request, which the store joins with AND.
Part000CustomerIds == Users \cup {"cus1"}

Part000SuccessPatch(r, sub, a) ==
    [r EXCEPT !.subscription_id = sub, !.is_premium = TRUE, !.status = "active",
              !.next_billing_date = a.next_billing_date,
              !.cancel_at_billing_date = FALSE]

Part000SuccessActivates(sub, st, p) == sub # None /\ st = "active" /\ p = "ok"

Part000Success(sub, st, p, a, o) ==
    /\ UNCHANGED <<now, sweep, statusReq, cancelReq, paymentReq, provider>>
    /\ users' = IF Part000SuccessActivates(sub, st, p) /\ o = "ok"
                THEN [u \in Users |->
                         IF users[u].exists /\ u = a.customer_id /\ users[u].email = a.email
                         THEN Part000SuccessPatch(users[u], sub, a)
                         ELSE users[u]]
                ELSE users
    /\ Interfere

\* -------------------------------------------------------------- specification

Init ==
    /\ users = EmptyTable
    /\ now = 0
    /\ sweep = [pc |-> "idle", queue |-> {}]
    /\ statusReq = Idle
    /\ cancelReq = Idle
    /\ paymentReq = NoPayment
    /\ resp = Response(None, 0)
    /\ provider = [sub \in SubIds |-> "active"]
    /\ tick = NoTick

\* The inputs a step draws. A path reads only some of its inputs: an input the
\* path does not read is fixed to one value, since every value gives the same
\* step.

\* The outcome of a call that is made only when reached; store is the set of
\* outcomes a store call may have.
StoreOn(store, reached) == IF reached THEN store ELSE {"ok"}
ProviderOn(reached) == IF reached THEN ProviderOutcomes ELSE {"ok"}

\* Events of a branch that matches rows by email: the date is read only when
\* the update is made (o = "ok") and matches a row.
EventsByEmail(types, o) ==
    IF o = "ok"
    THEN [type : types, subscription_id : SubIds, email : Emails, next_billing_date : Dates]
         \cup [type : types, subscription_id : SubIds, email : EventEmails \ Emails,
               next_billing_date : {0}]
    ELSE [type : types, subscription_id : SubIds, email : EventEmails,
          next_billing_date : {0}]

\* Events of a branch that matches rows by subscription_id; dates is what it
\* reads of the date.
EventsBySubscription(type, dates) ==
    [type : {type}, subscription_id : SubIds, email : EventEmails, next_billing_date : dates]

\* Events of the given types that carry no customer email.
EventsNoEmail(types) ==
    [type : types, subscription_id : SubIds, email : {None}, next_billing_date : {0}]

\* Events that carry no subscription_id.
EventsNoSubscription ==
    [type : EventTypes, subscription_id : {None}, email : {None}, next_billing_date : {0}]

NoAnswer == [email |-> None, next_billing_date |-> 0]

\* The provider's answer is read only when the fetch was made and answered
\* 2xx, and its date only when its email matches a row.
AnswersOn(fetched, p) ==
    IF fetched /\ p = "ok"
    THEN [email : Emails, next_billing_date : Dates]
         \cup [email : (EventEmails \ Emails) \cup {None}, next_billing_date : {0}]
    ELSE {NoAnswer}

\* The update of /success reads nothing of the answer when it fails: its
\* failures are drawn for one answer.
FirstAnswer == [email |-> "a@x", next_billing_date |-> 0]

\* A step sends its response. The response is part of the state (resp) for
\* the handlers in observed, and left out of it for the others; its notes are
\* kept when observed asks for the detail.
Send(observed, r) ==
    resp' = IF r.op \notin observed THEN resp
            ELSE IF "detail" \in observed THEN [r EXCEPT !.wrote = (users' # users)]
            ELSE About(r, None)

\* The webhook's response to the delivery of e.
Deliver(observed, e, r) == Send(observed, About(r, WebhookClass(e)))

\* One step of the server or of its clock. observed: the handlers
\* whose responses are recorded; store: the outcomes a store call may have.
Step(observed, store) ==
    \/ ClockTick /\ UNCHANGED resp
    \/ \E o \in store : SweepStart(o) /\ UNCHANGED resp
    \/ \E u \in Users, o \in store : SweepStep(u, o) /\ UNCHANGED resp
    \/ \E p \in ProviderOutcomes :
          \E u \in IF p = "ok" THEN Users ELSE {"u1"}, o \in StoreOn(store, p = "ok"),
             e \in Emails, sid \in Sessions :
             CreateSubscription(u, e, sid, p, o) /\ Send(observed, CreateReply(u, p, o))
    \/ \E u \in Users, o \in store :
          StatusRead(u, o) /\ Send(observed, StatusReadReply(u, o))
    \/ \E o \in store : StatusWrite(o) /\ Send(observed, StatusWriteReply(o))
    \/ \E u \in Users \cup {None}, sub \in SubIds \cup {None} :
          \E o \in StoreOn(store, u # None /\ sub # None) :
             CancelRead(u, sub, o) /\ Send(observed, CancelReadReply(u, sub, o))
    \/ \E p \in ProviderOutcomes : \E o \in StoreOn(store, p = "ok") :
          CancelFinish(p, o) /\ Send(observed, CancelFinishReply(p, o))
    \/ \E e \in EventsNoSubscription :
          WebhookMissingSubscription(e) /\ Deliver(observed, e, WebhookReply("ok"))
    \/ \E o \in store : \E e \in EventsByEmail(ActivateTypes, o) :
          \E o2 \in StoreOn(store, o = "ok" /\ ActivateFindsNone(e)) :
             WebhookActivate(e, o) /\ Deliver(observed, e, ActivateReply(e, o, o2))
    \/ \E e \in EventsNoEmail(ActivateTypes) :
          WebhookActivate(e, "ok") /\ Deliver(observed, e, WebhookReply("ok"))
    \/ \E o \in store :
          \E e \in EventsBySubscription("subscription.cancelled",
                                        IF o = "ok" THEN Dates ELSE {0}) :
             WebhookCancelled(e, o) /\ Deliver(observed, e, WebhookReply(o))
    \/ \E o \in store : \E e \in EventsByEmail({"payment.succeeded"}, o) :
          WebhookPaymentSucceeded(e, o) /\ Deliver(observed, e, WebhookReply(o))
    \/ \E e \in EventsNoEmail({"payment.succeeded"}) :
          WebhookPaymentSucceeded(e, "ok") /\ Deliver(observed, e, WebhookReply("ok"))
    \/ \E o \in store : \E e \in EventsBySubscription("payment.failed", {0}) :
          WebhookPaymentFailed(e, o) /\ Deliver(observed, e, WebhookReply(o))
    \/ \E o \in store : \E e \in EventsBySubscription("subscription.expired", {0}) :
          WebhookExpired(e, o) /\ Deliver(observed, e, WebhookReply(o))
    \/ \E e \in EventsNoEmail(EventTypes \ HandledTypes) :
          WebhookUnhandled(e) /\ Deliver(observed, e, WebhookReply("ok"))
    \/ \E sub \in SubIds \cup {None}, st \in {"active", "failed"} :
          \E p \in ProviderOn(sub # None /\ st = "active") :
             \E a \in AnswersOn(sub # None /\ st = "active", p) :
                \E o \in StoreOn(store, SuccessActivates(sub, st, p, a) /\ a = FirstAnswer) :
                   Success(sub, st, p, a, o) /\ Send(observed, SuccessReply)

\* The store and the handlers; responses are not part of the state.
Next == Step({}, StoreOutcomes)
Spec == Init /\ [][Next]_vars

\* The same steps, with the responses of the webhook and of the /success
\* redirect recorded in resp, next to the provider's own steps. No handler
\* reads the status the provider reports, so the other specifications leave
\* the provider as it starts.
NextProviderFacing ==
    \/ Step({"webhook", "success"}, StoreOutcomes)
    \/ \E sub \in SubIds, st \in ProviderStatuses : ProviderChanges(sub, st) /\ UNCHANGED resp
ProviderFacingSpec == Init /\ [][NextProviderFacing]_vars

\* The same steps, with the webhook's responses recorded together with what
\* each delivery was about.
NextDelivery == Step({"webhook", "detail"}, StoreOutcomes)
DeliverySpec == Init /\ [][NextDelivery]_vars

\* The same steps, with the cancel request's responses recorded together with
\* the case each one answers.
NextCancel == Step({"cancel", "detail"}, StoreOutcomes)
CancelSpec == Init /\ [][NextCancel]_vars

\* The steps when every store call succeeds, with the status query's answers
\* recorded together with what its select returned.
NextStatus == Step({"status", "detail"}, {"ok"})
StatusSpec == Init /\ [][NextStatus]_vars

\* The same steps, with the responses of create-subscription recorded.
NextCreate == Step({"create", "detail"}, StoreOutcomes)
CreateSpec == Init /\ [][NextCreate]_vars

\* The steps when every store call succeeds, under the scheduling the code
\* sets up: setInterval starts a sweep tick again and again, and an await on
\* the store or the provider resolves, so a handler that has a call to make
\* makes it.
NextLive == Step({}, {"ok"})
SweepBegins == SweepStart("ok") /\ UNCHANGED resp
SweepContinues == \E u \in Users : SweepStep(u, "ok") /\ UNCHANGED resp
StatusCompletes == StatusWrite("ok") /\ UNCHANGED resp
CancelCompletes == \E p \in ProviderOutcomes : CancelFinish(p, "ok") /\ UNCHANGED resp
LiveSpec ==
    /\ Init
    /\ [][NextLive]_vars
    /\ SF_vars(SweepBegins)
    /\ WF_vars(SweepContinues)
    /\ WF_vars(StatusCompletes)
    /\ WF_vars(CancelCompletes)

\* ------------------------------------------- the earlier revision: its steps

\* Events of the given types that carry the column the branch matches by:
\* the customer email, or the session id alone.
Part000EventsByEmail(types, dates) ==
    [type : types, subscription_id : SubIds, email : EventEmails, session_id : {None},
     next_billing_date : dates]

Part000EventsBySession(types, dates) ==
    [type : types, subscription_id : SubIds, email : {None}, session_id : Sessions,
     next_billing_date : dates]

\* Events of a branch that has the subscription_id only to read.
Part000EventsBySubscription(types, dates) ==
    [type : types, subscription_id : SubIds, email : {None}, session_id : {None},
     next_billing_date : dates]

Part000EventsOn(types, dates) ==
    Part000EventsByEmail(types, dates) \cup Part000EventsBySession(types, dates)
    \cup Part000EventsBySubscription(types, dates)

\* The provider's answer to GET /subscriptions/:id, read only when the fetch
\* was made and answered 2xx.
Part000AnswersOn(fetched, p) ==
    IF fetched /\ p = "ok"
    THEN [customer_id : Part000CustomerIds, email : Emails, next_billing_date : Dates]
    ELSE {[customer_id |-> "cus1", email |-> "a@x", next_billing_date |-> 0]}

\* One step of the earlier revision or of its clock; responses are not part
\* of the state.
Part000Step(store) ==
    \/ ClockTick /\ UNCHANGED resp
    \/ \E o \in store : SweepStart(o) /\ UNCHANGED resp
    \/ \E u \in Users, o \in store : SweepStep(u, o) /\ UNCHANGED resp
    \/ \E p \in ProviderOutcomes :
          \E u \in IF p = "ok" THEN Users ELSE {"u1"}, o \in StoreOn(store, p = "ok"),
             e \in Emails, sid \in Sessions :
             Part000CreateSubscription(u, e, sid, p, o) /\ UNCHANGED resp
    \/ \E u \in Users, o \in store : StatusRead(u, o) /\ UNCHANGED resp
    \/ \E o \in store : Part000StatusWrite(o) /\ UNCHANGED resp
    \/ \E u \in Users \cup {None}, sub \in SubIds \cup {None} :
          \E o \in StoreOn(store, u # None /\ sub # None) :
             CancelRead(u, sub, o) /\ UNCHANGED resp
    \/ \E p \in ProviderOutcomes : \E o \in StoreOn(store, p = "ok") :
          CancelFinish(p, o) /\ UNCHANGED resp
    \/ \E e \in EventsNoSubscription : WebhookMissingSubscription(e) /\ UNCHANGED resp
    \/ \E o \in store :
          \E e \in Part000EventsOn(ActivateTypes, IF o = "ok" THEN Dates ELSE {0}) :
             Part000WebhookActivate(e, o) /\ UNCHANGED resp
    \/ \E o \in store :
          \E e \in EventsBySubscription("subscription.cancelled",
                                        IF o = "ok" THEN Dates ELSE {0}) :
             WebhookCancelled(e, o) /\ UNCHANGED resp
    \/ \E o \in store : \E e \in Part000EventsOn({"payment.succeeded"}, Dates) :
          Part000PaymentRead(e, o) /\ UNCHANGED resp
    \/ \E o \in store : Part000PaymentWrite(o) /\ UNCHANGED resp
    \/ \E o \in store : \E e \in EventsBySubscription("payment.failed", {0}) :
          WebhookPaymentFailed(e, o) /\ UNCHANGED resp
    \/ \E e \in Part000EventsBySubscription(EventTypes \ Part000HandledTypes, {0}) :
          Part000WebhookUnhandled(e) /\ UNCHANGED resp
    \/ \E sub \in SubIds \cup {None}, st \in {"active", "failed"} :
          \E p \in ProviderOn(sub # None /\ st = "active") :
             \E a \in Part000AnswersOn(sub # None /\ st = "active", p) :
                \E o \in StoreOn(store, Part000SuccessActivates(sub, st, p)) :
                   Part000Success(sub, st, p, a, o) /\ UNCHANGED resp

NextPart000 == Part000Step(StoreOutcomes)
Part000Spec == Init /\ [][NextPart000]_vars

\* ------------------------------------------------------------------ claims

\* C1: in every reachable state, every record with isPremium = true has
\* status active or cancelling.
C1_PremiumStatus ==
    \A u \in Users :
        users[u].exists /\ users[u].is_premium
            => users[u].status \in {"active", "cancelling"}

\* C2: in every reachable state, every record with status = expired has
\* isPremium = false.
C2_ExpiredNotPremium ==
    \A u \in Users : users[u].status = "expired" => ~users[u].is_premium

\* A record the sweep or the status query expired: those two leave the
\* cancellation flag set.
C2_Witness ==
    \E u \in Users : users[u].status = "expired" /\ users[u].cancel_at_billing_date

\* C3: in every reachable state, every record with cancelAtBillingDate = true
\* has status cancelling or expired.
C3_CancelFlagStatus ==
    \A u \in Users :
        users[u].exists /\ users[u].cancel_at_billing_date
            => users[u].status \in {"cancelling", "expired"}

\* C4: a subscription.cancelled webhook whose next_billing_date is strictly
\* after now leaves every record holding its subscription_id with
\* isPremium = true, status = cancelling and cancelAtBillingDate = true.
C4_CancelledInGrace ==
    [][\A e \in EventsBySubscription("subscription.cancelled", Dates) :
          e.next_billing_date > now /\ WebhookCancelled(e, "ok")
              => \A u \in Users :
                    users[u].exists /\ users[u].subscription_id = e.subscription_id
                        => /\ users'[u].is_premium
                           /\ users'[u].status = "cancelling"
                           /\ users'[u].cancel_at_billing_date]_vars

\* C5: a sweep tick that ran with no store failure and no write by another
\* handler has demoted every record that at the start of the tick had
\* cancelAtBillingDate = true, isPremium = true and nextBillingDate <= now to
\* isPremium = false, status = expired, and has changed no other record.
C5_SweepTick ==
    tick.state = "finished" =>
        \A u \in Users :
            LET before == tick.snap[u]
                due == /\ before.exists
                       /\ before.cancel_at_billing_date
                       /\ before.is_premium
                       /\ before.next_billing_date # NoDate
                       /\ before.next_billing_date <= tick.at
            IN  users[u] = IF due
                           THEN [before EXCEPT !.is_premium = FALSE, !.status = "expired",
                                               !.updated_at = users[u].updated_at]
                           ELSE before

\* A finished tick that demoted one record and had another, not due, to leave
\* alone.
C5_Witness ==
    /\ tick.state = "finished"
    /\ \E u, v \in Users :
          /\ tick.snap[u].is_premium
          /\ tick.snap[u].cancel_at_billing_date
          /\ tick.snap[u].next_billing_date = tick.at
          /\ users[u].status = "expired"
          /\ tick.snap[v].exists
          /\ tick.snap[v].is_premium
          /\ users[v].is_premium

\* C6: under LiveSpec (sweep ticks keep firing, store calls succeed), a record
\* with cancelAtBillingDate = true and isPremium = true whose nextBillingDate
\* the clock has reached eventually has isPremium = false and status =
\* expired, unless an inbound event ends the pending cancellation first.
C6_Due(u) ==
    /\ users[u].exists
    /\ users[u].cancel_at_billing_date
    /\ users[u].is_premium
    /\ users[u].next_billing_date # NoDate
    /\ users[u].next_billing_date <= now

C6_GraceExpiry ==
    \A u \in Users :
        C6_Due(u) ~> ((~users[u].is_premium /\ users[u].status = "expired") \/ ~C6_Due(u))

\* A tick has demoted a record whose billing date had passed before it.
C6_Witness ==
    /\ tick.state = "finished"
    /\ \E u \in Users :
          /\ tick.snap[u].is_premium
          /\ tick.snap[u].cancel_at_billing_date
          /\ tick.snap[u].next_billing_date # NoDate
          /\ tick.snap[u].next_billing_date < tick.at
          /\ ~users[u].is_premium
          /\ users[u].status = "expired"

\* C7: for every record with a pending cancellation and every instant, the
\* sweep's selection, the status query's expiry check and the
\* subscription.cancelled webhook (given the record's date) agree: the grace
\* period is running exactly when nextBillingDate > now, and has elapsed when
\* nextBillingDate = now or nextBillingDate < now.
C7_SameComparison ==
    \A u \in Users :
        LET r == users[u]
            running == r.next_billing_date > now
            e == [type |-> "subscription.cancelled", subscription_id |-> r.subscription_id,
                  email |-> r.email, next_billing_date |-> r.next_billing_date]
        IN  r.exists /\ r.cancel_at_billing_date /\ r.is_premium
               /\ r.next_billing_date # NoDate
            => /\ SweepSelects(r, now) = ~running
               /\ StatusExpired(r, now) = ~running
               /\ GraceRunning(e, now) = running
               /\ CancelledPatch(r, e, now).is_premium = running

\* The tie: a record with a pending cancellation whose billing date is now.
C7_Witness ==
    \E u \in Users :
        /\ users[u].cancel_at_billing_date
        /\ users[u].is_premium
        /\ users[u].next_billing_date = now

\* C8: a payment.failed webhook sets status = payment_failed on every record
\* holding its subscription_id and leaves isPremium, subscriptionId,
\* nextBillingDate and cancelAtBillingDate (and every other column but
\* updatedAt) as they were.
C8_PaymentFailedFrame ==
    [][\A e \in EventsBySubscription("payment.failed", {0}) :
          WebhookPaymentFailed(e, "ok")
              => \A u \in Users :
                    users[u].exists /\ users[u].subscription_id = e.subscription_id
                        => users'[u] = [users[u] EXCEPT !.status = "payment_failed",
                                                        !.updated_at = users'[u].updated_at]]_vars

\* A premium record after a failed payment: still premium.
C8_Witness ==
    \E u \in Users : users[u].status = "payment_failed" /\ users[u].is_premium

\* C9: a step that moves a record from expired to active is an activation
\* webhook (subscription.created/active/renewed, payment.succeeded) or the
\* /success redirect, and the redirect re-activates only a subscription the
\* provider reports as active.
C9_Reactivation ==
    [][\A u \in Users :
          users[u].status = "expired" /\ users'[u].status = "active"
              => \/ /\ resp' = WebhookReply("ok")
                    /\ \E e \in EventsByEmail(ActivateTypes \cup {"payment.succeeded"}, "ok") :
                          WebhookActivate(e, "ok") \/ WebhookPaymentSucceeded(e, "ok")
                 \/ /\ resp' = SuccessReply
                    /\ \E sub \in SubIds, a \in AnswersOn(TRUE, "ok") :
                          Success(sub, "active", "ok", a, "ok")
                    /\ provider[users'[u].subscription_id] = "active"]_vars

\* C10: every webhook delivery is answered with HTTP 200.
C10_WebhookAcknowledged == resp.op = "webhook" => resp.code = 200

\* C11: under DeliverySpec, the delivery of an event of a handled type none of
\* whose keys is on a row has changed no row and was answered with HTTP 200.
C11_UnresolvedAcknowledged ==
    resp.op = "webhook" /\ resp.about = "unresolved"
        => ~resp.wrote /\ resp.code = 200

\* C12: under DeliverySpec, the delivery of an event whose type the switch
\* has no case for, or of an envelope without subscription_id, has changed no
\* row and was answered with HTTP 200.
C12_IgnoredAcknowledged ==
    resp.op = "webhook" /\ resp.about \in {"unhandled", "no_subscription"}
        => ~resp.wrote /\ resp.code = 200

\* An event of an unknown type was delivered for a subscription that a
\* premium row holds.
C12_Witness ==
    /\ resp.op = "webhook"
    /\ resp.about = "unhandled"
    /\ \E u \in Users : users[u].is_premium /\ users[u].subscription_id \in SubIds

\* C13: an activation webhook (subscription.created, subscription.active,
\* subscription.renewed, payment.succeeded) whose update succeeds leaves every
\* row it resolves to with isPremium = true, status = active,
\* cancelAtBillingDate = false and nextBillingDate = the event's date.
C13_ActivateEffect ==
    [][\A e \in EventsByEmail(ActivateTypes \cup {"payment.succeeded"}, "ok") :
          WebhookActivate(e, "ok") \/ WebhookPaymentSucceeded(e, "ok")
              => \A u \in Users :
                    users[u].exists /\ users[u].email = e.email
                        => /\ users'[u].is_premium
                           /\ users'[u].status = "active"
                           /\ ~users'[u].cancel_at_billing_date
                           /\ users'[u].next_billing_date = e.next_billing_date]_vars

\* C14: a webhook that writes resolves its target first by subscription_id,
\* if a row holds it, then by customer email: the rows it changes are among
\* the rows so resolved, and every row so resolved gets the status the event
\* stands for.
C14_Resolved(e) ==
    LET bySubscription == {u \in Users : users[u].exists
                                         /\ users[u].subscription_id = e.subscription_id}
        byEmail == {u \in Users : users[u].exists /\ e.email # None
                                  /\ users[u].email = e.email}
    IN  IF bySubscription # {} THEN bySubscription ELSE byEmail

C14_Status(e) ==
    IF e.type \in ActivateTypes \cup {"payment.succeeded"} THEN "active"
    ELSE IF e.type = "subscription.cancelled" THEN CancelledStatus(e, now)
    ELSE IF e.type = "payment.failed" THEN "payment_failed"
    ELSE "expired"

C14_ResolutionOrder ==
    [][\A e \in Events :
          e.type \in HandledTypes /\ WebhookHandled(e, "ok")
              => \A u \in Users :
                    /\ users'[u] # users[u] => u \in C14_Resolved(e)
                    /\ u \in C14_Resolved(e) => users'[u].status = C14_Status(e)]_vars

\* C15: a cancel request that the provider accepts and whose update succeeds
\* sets cancelAtBillingDate = true and status = cancelling on the user's row,
\* leaves isPremium, nextBillingDate, subscriptionId and every other column
\* but updatedAt as they were, and changes no other row.
C15_CancelFrame ==
    [][CancelFinish("ok", "ok")
          => \A u \in Users :
                users'[u] = IF u = cancelReq.user /\ users[u].exists
                            THEN [users[u] EXCEPT !.cancel_at_billing_date = TRUE,
                                                  !.status = "cancelling",
                                                  !.updated_at = users'[u].updated_at]
                            ELSE users[u]]_vars

\* A premium row after an accepted cancel request: still premium, with its
\* billing date.
C15_Witness ==
    \E u \in Users :
        /\ users[u].status = "cancelling"
        /\ users[u].cancel_at_billing_date
        /\ users[u].is_premium
        /\ users[u].next_billing_date # NoDate

\* C16: under CancelSpec, a cancel request answered for a failing case got a
\* failure response and changed no row: 400 without a call on the provider
\* when userId or subscriptionId is missing, 404 without a call on the
\* provider when no row holds both, 400 when the provider rejects, 500 when
\* a call throws.
C16_CancelFailures ==
    resp.op = "cancel" =>
        /\ resp.about = "missing_ids" => resp.code = 400 /\ ~resp.called /\ ~resp.wrote
        /\ resp.about = "not_found" => resp.code = 404 /\ ~resp.called /\ ~resp.wrote
        /\ resp.about = "provider_rejected" => resp.code = 400 /\ ~resp.wrote
        /\ resp.about = "call_threw" => resp.code = 500 /\ ~resp.wrote
        /\ resp.code # 200 => ~resp.wrote

\* The provider rejected the cancellation of a premium user's subscription.
C16_Witness ==
    /\ resp.op = "cancel"
    /\ resp.about = "provider_rejected"
    /\ \E u \in Users : users[u].is_premium /\ users[u].status = "active"

\* C17: within a sweep tick, a failed update of one selected row (the call
\* resolves with an error, or rejects) leaves that row as it was and does not
\* stop the tick: every other selected row not yet processed is still to be
\* updated.
C17_PartialFailure ==
    [][\A u \in Users, o \in StoreOutcomes \ {"ok"} :
          SweepStep(u, o) => /\ users' = users
                             /\ sweep'.queue = sweep.queue \ {u}]_vars

\* C18: in every reachable state and for every event, delivering the event
\* twice in a row at the same instant leaves the table (updatedAt aside) as
\* delivering it once does; so do two sweep ticks in a row and two status
\* queries in a row for the same user.
C18_SameRows(t1, t2) ==
    \A u \in Users : [t1[u] EXCEPT !.updated_at = NoDate] = [t2[u] EXCEPT !.updated_at = NoDate]

C18_Idempotent ==
    /\ \A e \in Events :
          C18_SameRows(WebhookUpdate(WebhookUpdate(users, e, now), e, now),
                       WebhookUpdate(users, e, now))
    /\ C18_SameRows(SweepUpdate(SweepUpdate(users, now), now), SweepUpdate(users, now))
    /\ \A u \in Users :
          C18_SameRows(StatusUpdate(StatusUpdate(users, u, now), u, now),
                       StatusUpdate(users, u, now))

\* A row whose grace period is over: the sweep, a status query and an event
\* each change the table when run once.
C18_Witness ==
    \E u \in Users :
        /\ C6_Due(u)
        /\ users[u].subscription_id # None
        /\ SweepUpdate(users, now) # users
        /\ StatusUpdate(users, u, now) # users
        /\ \E e \in Events : ~C18_SameRows(WebhookUpdate(users, e, now), users)

\* C19: under CreateSpec, a create-subscription request for a user without a
\* row, which the provider accepts and whose upsert succeeds, makes the one
\* row of that user with the given email and the provider's session id, no
\* subscriptionId and isPremium false, and touches no other row; a request
\* whose provider call failed has changed no row and got a failure response.
C19_CreateEffect ==
    [][/\ \A u \in Users, e \in Emails, sid \in Sessions :
             ~users[u].exists /\ CreateSubscription(u, e, sid, "ok", "ok")
                 => /\ users'[u].exists
                    /\ users'[u].email = e
                    /\ users'[u].session_id = sid
                    /\ users'[u].subscription_id = None
                    /\ ~users'[u].is_premium
                    /\ \A v \in Users \ {u} : users'[v] = users[v]
       /\ resp'.op = "create" /\ resp'.about = "provider_failed"
             => resp'.code \in {400, 500} /\ ~resp'.wrote]_vars

\* A first request made the row of its user and was answered 200.
C19_Witness ==
    /\ resp.op = "create" /\ resp.code = 200 /\ resp.wrote
    /\ \E u \in Users :
          /\ users[u].exists
          /\ users[u].subscription_id = None
          /\ ~users[u].is_premium
          /\ \E v \in Users : ~users[v].exists

\* C20: in every reachable state, every record with status = expired has
\* is_premium = false and cancel_at_billing_date = false.
C20_ExpiredRow ==
    \A u \in Users :
        users[u].status = "expired"
            => ~users[u].is_premium /\ ~users[u].cancel_at_billing_date

\* C21: in every reachable state, every record with status cancelling has
\* is_premium = true and cancel_at_billing_date = true; a cancel request on a
\* record that is not premium does not produce a non-premium cancelling
\* record.
C21_CancellingRow ==
    \A u \in Users :
        users[u].exists /\ users[u].status = "cancelling"
            => users[u].is_premium /\ users[u].cancel_at_billing_date

\* C22: under StatusSpec, a status query whose select returned a row that
\* holds a subscriptionId, has cancelAtBillingDate = true and
\* nextBillingDate <= now, and whose update succeeds, leaves that row with
\* isPremium = false and status = expired; its answer is (isPremium = false,
\* status = expired), so no answer for such a row reports isPremium = true;
\* a query whose select returned anything else changes no row.
C22_StatusExpiry ==
    [][/\ StatusWrite("ok")
             => /\ ~users'[statusReq.user].is_premium
                /\ users'[statusReq.user].status = "expired"
                /\ \A v \in Users \ {statusReq.user} : users'[v] = users[v]
       /\ resp'.op = "status" /\ resp'.about = "grace_elapsed"
             => ~resp'.isPremium /\ resp'.status = "expired"
       /\ resp'.op = "status" /\ resp'.about # "grace_elapsed" => ~resp'.wrote]_vars

\* A query found a premium row past its grace period, demoted it and answered
\* expired.
C22_Witness ==
    /\ resp.op = "status" /\ resp.about = "grace_elapsed" /\ resp.wrote
    /\ resp.status = "expired" /\ ~resp.isPremium
    /\ \E u \in Users :
          /\ users[u].status = "expired"
          /\ ~users[u].is_premium
          /\ users[u].cancel_at_billing_date
          /\ users[u].updated_at = now

\* C23: every step of a handler that changes a field of a record leaves that
\* record's updatedAt at the instant of the write.
C23_UpdatedAtOnWrite ==
    [][\A u \in Users : users'[u] # users[u] => users'[u].updated_at = now]_vars

\* C24: whenever the sweep or the status query writes isPremium = false,
\* status = expired to a record, that record at the moment of the write still
\* has cancelAtBillingDate = true and nextBillingDate <= now: an activation
\* or renewal that landed between the handler's read and its write is not
\* overwritten.
C24_NoStaleDemotion ==
    [][/\ \A u \in Users :
             SweepStep(u, "ok")
                 => users[u].cancel_at_billing_date /\ ToDate(users[u].next_billing_date) <= now
       /\ StatusWrite("ok")
             => /\ users[statusReq.user].cancel_at_billing_date
                /\ ToDate(users[statusReq.user].next_billing_date) <= now]_vars

\* C25: a subscription.cancelled webhook never grants entitlement: every
\* record that was not premium before the event is not premium after it,
\* whatever the event's next_billing_date.
C25_CancelledNeverGrants ==
    [][\A e \in EventsBySubscription("subscription.cancelled", Dates) :
          WebhookCancelled(e, "ok")
              => \A u \in Users : ~users[u].is_premium => ~users'[u].is_premium]_vars

\* C26: one provider subscription entitles at most one user: in every
\* reachable state no two records of different users hold the same
\* subscriptionId, also when several records were created with one email.
C26_OneUserPerSubscription ==
    \A u, v \in Users :
        /\ u # v
        /\ users[u].exists /\ users[v].exists
        /\ users[u].subscription_id # None
        => users[u].subscription_id # users[v].subscription_id

\* C27: in every reachable state, every record with isPremium = true holds a
\* subscriptionId, so the status query's answer (isPremium = false, status =
\* free) for a record without a subscriptionId hides no stored entitlement.
C27_PremiumHoldsSubscription ==
    \A u \in Users :
        /\ users[u].exists /\ users[u].is_premium => users[u].subscription_id # None
        /\ StatusReadReply(u, "ok").status = "free" => ~users[u].is_premium

\* A premium row, and next to it a row without a subscriptionId, for which
\* the status query answers free.
C27_Witness ==
    \E u, v \in Users :
        /\ users[u].exists /\ users[u].is_premium /\ users[u].subscription_id # None
        /\ users[v].exists /\ users[v].subscription_id = None /\ ~users[v].is_premium

\* C28: under CreateSpec, a create-subscription request that reaches its
\* upsert for a user who has a record already changes of that record only the
\* email, the session id and
\* updatedAt (the model has no name and no createdAt): subscriptionId,
\* isPremium, status, nextBillingDate and cancelAtBillingDate stay as they
\* were; no other user's record is touched.
C28_CreateFrame ==
    [][\A u \in Users, e \in Emails, sid \in Sessions :
          users[u].exists /\ CreateSubscription(u, e, sid, "ok", "ok")
              => /\ users'[u] = [users[u] EXCEPT !.email = users'[u].email,
                                                 !.session_id = users'[u].session_id,
                                                 !.updated_at = users'[u].updated_at]
                 /\ \A v \in Users \ {u} : users'[v] = users[v]]_vars

\* A request for a user who had a row already was answered and wrote the
\* row; the table holds a premium row written at this instant.
C28_Witness ==
    /\ resp.op = "create" /\ resp.about = "provider_ok_again" /\ resp.wrote
    /\ \E u \in Users :
          /\ users[u].is_premium
          /\ users[u].subscription_id # None
          /\ users[u].updated_at = now

====
